---- MODULE Spec2Model ----
(***************************************************************************)
(* Model of the line-oriented TCP echo server: the growable byte buffer    *)
(* with newline framing (src/dynBuf.ts) and the promise-based connection   *)
(* adapter with its serving loop (src/unnamed/part_001).                   *)
(***************************************************************************)
EXTENDS Integers, Sequences, FiniteSets, TLC

\* ------------------------------------------------------------------------
\* Bytes and byte strings.  A Buffer is a sequence of byte values; the model
\* is 1-based where the source is 0-based.
\* ------------------------------------------------------------------------
NL == 10
ChH == 104
ChL == 108

Rep(b, n) == [i \in 1..n |-> b]

Min(a, b) == IF a < b THEN a ELSE b
Max(a, b) == IF a > b THEN a ELSE b

\* ---- bounds -------------------------------------------------------------
MaxPush == 3
LongLen == 33
MaxReads == 3
MaxWrites == 2
MaxData == 3
MaxPop == 2

\* ------------------------------------------------------------------------
\* Node Buffer primitives used by dynBuf.ts
\* ------------------------------------------------------------------------
\* Buffer.alloc(n): n zero bytes
BufferAlloc(n) == Rep(0, n)

\* source.copy(target, targetStart, 0): copies as much of source as fits,
\* nothing when targetStart is at or past the end of target
BufferCopy(source, target, targetStart) ==
  IF targetStart >= Len(target) THEN target
  ELSE LET n == Min(Len(source), Len(target) - targetStart)
       IN [i \in 1..Len(target) |->
             IF i > targetStart /\ i <= targetStart + n
             THEN source[i - targetStart] ELSE target[i]]

\* relative index clamping of TypedArray methods
RelIndex(k, len) == IF k < 0 THEN Max(len + k, 0) ELSE Min(k, len)

\* data.copyWithin(target, start, end)
CopyWithin(data, target, start, end) ==
  LET len == Len(data)
      to == RelIndex(target, len)
      from == RelIndex(start, len)
      final == RelIndex(end, len)
      count == Min(final - from, len - to)
  IN IF count <= 0 THEN data
     ELSE [i \in 1..len |->
             IF i > to /\ i <= to + count THEN data[from + (i - to)] ELSE data[i]]

\* data.subarray(start, end)
Subarray(data, start, end) ==
  LET len == Len(data)
      b == RelIndex(start, len)
      e == RelIndex(end, len)
  IN IF e <= b THEN <<>> ELSE SubSeq(data, b + 1, e)

\* bytes.indexOf("\n"): 0-based index of the first newline, -1 when absent
IndexOfNL(bytes) ==
  LET hits == {i \in 1..Len(bytes) : bytes[i] = NL}
  IN IF hits = {} THEN -1
     ELSE (CHOOSE i \in hits : \A j \in hits : i <= j) - 1

\* ------------------------------------------------------------------------
\* DynBuf (src/dynBuf.ts)
\* ------------------------------------------------------------------------
EmptyBuf == [data |-> <<>>, length |-> 0]

GrowCapExact(cap, newLen) == IF cap < newLen THEN newLen ELSE cap

RECURSIVE GrowCap(_, _)
GrowCap(cap, newLen) == IF cap < newLen THEN GrowCap(cap * 2, newLen) ELSE cap

bufPushAtFront(b, data) ==
  LET newLen == b.length + Len(data)
      store == IF Len(b.data) < newLen
               THEN BufferCopy(b.data, BufferAlloc(GrowCap(Max(Len(b.data), 32), newLen)), 0)
               ELSE b.data
  IN [data |-> BufferCopy(data, store, 0), length |-> newLen]

\* data.copy throws a RangeError on a negative target offset, which leaves
\* the length as it was
bufPush(b, data) ==
  LET newLen == b.length + Len(data)
      store == IF Len(b.data) < newLen
               THEN BufferCopy(b.data, BufferAlloc(GrowCap(Max(Len(b.data), 32), newLen)), 0)
               ELSE b.data
  IN IF b.length < 0
     THEN [data |-> store, length |-> b.length]
     ELSE [data |-> BufferCopy(data, store, b.length), length |-> newLen]

\* the second definition of bufPush: on growth it sets buf.length = cap
\* before copying the chunk to offset buf.length
bufPush2(b, data) ==
  LET newLen == b.length + Len(data)
      grow == Len(b.data) < newLen
      store == IF grow
               THEN BufferCopy(b.data, BufferAlloc(GrowCap(Max(Len(b.data), 32), newLen)), 0)
               ELSE b.data
      at == IF grow THEN Len(store) ELSE b.length
  IN IF at < 0
     THEN [data |-> store, length |-> b.length]
     ELSE [data |-> BufferCopy(data, store, at), length |-> newLen]

bufPopNoShift(b, len) == [data |-> b.data, length |-> b.length - len]

bufPop(b, len) ==
  [data |-> CopyWithin(b.data, 0, len, b.length), length |-> b.length - len]

\* cutMessage returns the pair (message or Null, buffer afterwards)
Null == <<-1>>

cutMessageDropDelim(b) ==
  LET delimIdx == IndexOfNL(Subarray(b.data, 0, b.length))
  IN IF delimIdx < 0
     THEN [msg |-> Null, buf |-> b, view |-> FALSE]
     ELSE [msg |-> Subarray(b.data, 0, delimIdx), buf |-> bufPop(b, delimIdx + 1),
           view |-> FALSE]

cutMessageView(b) ==
  LET delimIdx == IndexOfNL(Subarray(b.data, 0, b.length))
  IN IF delimIdx < 0
     THEN [msg |-> Null, buf |-> b, view |-> FALSE]
     ELSE [msg |-> Subarray(b.data, 0, delimIdx + 1), buf |-> bufPop(b, delimIdx + 1),
           view |-> TRUE]

\* view: whether the returned message shares the buffer's storage;
\* Buffer.from(subarray) copies, so it does not
cutMessage(b) ==
  LET delimIdx == IndexOfNL(Subarray(b.data, 0, b.length))
  IN IF delimIdx < 0
     THEN [msg |-> Null, buf |-> b, view |-> FALSE]
     ELSE [msg |-> Subarray(b.data, 0, delimIdx + 1), buf |-> bufPop(b, delimIdx + 1),
           view |-> FALSE]

\* ------------------------------------------------------------------------
\* Connection adapter (src/unnamed/part_001)
\* ------------------------------------------------------------------------
NoErr == "null"
ErrConcurrentRead == "Concurrent read operations not allowed"
ErrZeroLength == "Data length must be greater than 0"
ErrNoReader == "No reader available"
TransportErrors == {"ECONNRESET", "EPIPE"}

\* conn = { socket, err: null, ended: false, reader: null }; the server is
\* created with pauseOnConnect, so the socket starts paused
NewConn == [err |-> NoErr, ended |-> FALSE, reader |-> 0]
\* closedReader: the read that was pending when the socket was destroyed
\* from outside (0 when none)
NewSock == [paused |-> TRUE, destroyed |-> FALSE, endSeen |-> FALSE,
            resumes |-> 0, pauses |-> 0, destroys |-> 0, closedReader |-> 0]

\* the state of one connection and its serving task, as one record
\* the connections of the two-connection specification
Conns == 1..2

NewTask == [conn |-> NewConn, sock |-> NewSock, reads |-> <<>>, writes |-> <<>>,
            wire |-> <<>>, pc |-> "read", cur |-> 0, caught |-> NoErr]

\* promise bookkeeping: resolve/reject settle a pending promise and are
\* ignored (but counted) on one already settled
Promise(st, v) == [state |-> st, value |-> v, settles |-> IF st = "pending" THEN 0 ELSE 1]

WPromise(st, v, data) ==
  [state |-> st, value |-> v, settles |-> IF st = "pending" THEN 0 ELSE 1, data |-> data]

Settle(ps, id, st, v) ==
  [ps EXCEPT ![id] = IF @.state = "pending"
                     THEN [@ EXCEPT !.state = st, !.value = v, !.settles = @ + 1]
                     ELSE [@ EXCEPT !.settles = @ + 1]]

\* soRead: returns the connection, socket and read log after the call
soReadNoGuard(c, sk, rs) ==
  IF c.err # NoErr
  THEN [conn |-> c, sock |-> sk, reads |-> Append(rs, Promise("rejected", c.err))]
  ELSE IF c.ended
  THEN [conn |-> c, sock |-> sk, reads |-> Append(rs, Promise("resolved", <<>>))]
  ELSE [conn |-> [c EXCEPT !.reader = Len(rs) + 1],
        sock |-> [sk EXCEPT !.paused = FALSE, !.resumes = @ + 1],
        reads |-> Append(rs, Promise("pending", <<>>))]

soReadConsumesErr(c, sk, rs) ==
  IF c.reader # 0
  THEN [conn |-> c, sock |-> sk, reads |-> Append(rs, Promise("threw", ErrConcurrentRead))]
  ELSE IF c.err # NoErr
  THEN [conn |-> [c EXCEPT !.err = NoErr], sock |-> sk,
        reads |-> Append(rs, Promise("rejected", c.err))]
  ELSE IF c.ended
  THEN [conn |-> c, sock |-> sk, reads |-> Append(rs, Promise("resolved", <<>>))]
  ELSE [conn |-> [c EXCEPT !.reader = Len(rs) + 1],
        sock |-> [sk EXCEPT !.paused = FALSE, !.resumes = @ + 1],
        reads |-> Append(rs, Promise("pending", <<>>))]

soReadEndedWaits(c, sk, rs) ==
  IF c.reader # 0
  THEN [conn |-> c, sock |-> sk, reads |-> Append(rs, Promise("threw", ErrConcurrentRead))]
  ELSE IF c.err # NoErr
  THEN [conn |-> c, sock |-> sk, reads |-> Append(rs, Promise("rejected", c.err))]
  ELSE [conn |-> [c EXCEPT !.reader = Len(rs) + 1],
        sock |-> [sk EXCEPT !.paused = FALSE, !.resumes = @ + 1],
        reads |-> Append(rs, Promise("pending", <<>>))]

soReadEndFirst(c, sk, rs) ==
  IF c.reader # 0
  THEN [conn |-> c, sock |-> sk, reads |-> Append(rs, Promise("threw", ErrConcurrentRead))]
  ELSE IF c.ended
  THEN [conn |-> c, sock |-> sk, reads |-> Append(rs, Promise("resolved", <<>>))]
  ELSE IF c.err # NoErr
  THEN [conn |-> c, sock |-> sk, reads |-> Append(rs, Promise("rejected", c.err))]
  ELSE [conn |-> [c EXCEPT !.reader = Len(rs) + 1],
        sock |-> [sk EXCEPT !.paused = FALSE, !.resumes = @ + 1],
        reads |-> Append(rs, Promise("pending", <<>>))]

soRead(c, sk, rs) ==
  IF c.reader # 0
  THEN [conn |-> c, sock |-> sk, reads |-> Append(rs, Promise("threw", ErrConcurrentRead))]
  ELSE IF c.err # NoErr
  THEN [conn |-> c, sock |-> sk, reads |-> Append(rs, Promise("rejected", c.err))]
  ELSE IF c.ended
  THEN [conn |-> c, sock |-> sk, reads |-> Append(rs, Promise("resolved", <<>>))]
  ELSE [conn |-> [c EXCEPT !.reader = Len(rs) + 1],
        sock |-> [sk EXCEPT !.paused = FALSE, !.resumes = @ + 1],
        reads |-> Append(rs, Promise("pending", <<>>))]

\* soWrite: returns the write log and the submissions after the call
Submission(id, data) == [id |-> id, data |-> data, cb |-> "pending"]

soWriteNoChecks(c, ws, wr, data) ==
  [writes |-> Append(ws, WPromise("pending", NoErr, data)),
   wire |-> Append(wr, Submission(Len(ws) + 1, data))]

soWrite(c, ws, wr, data) ==
  IF Len(data) = 0
  THEN [writes |-> Append(ws, WPromise("rejected", ErrZeroLength, data)), wire |-> wr]
  ELSE IF c.err # NoErr
  THEN [writes |-> Append(ws, WPromise("rejected", c.err, data)), wire |-> wr]
  ELSE [writes |-> Append(ws, WPromise("pending", NoErr, data)),
        wire |-> Append(wr, Submission(Len(ws) + 1, data))]

\* the completion callback passed to socket.write, for submission k
writeCallback(ws, wr, k, err) ==
  [writes |-> Settle(ws, wr[k].id, IF err # NoErr THEN "rejected" ELSE "resolved", err),
   wire |-> [wr EXCEPT ![k].cb = IF err # NoErr THEN "err" ELSE "ok"]]

\* the handlers soInit registers
onDataNoPause(c, sk, rs, data) ==
  IF c.reader = 0
  THEN [conn |-> c, sock |-> sk, reads |-> rs, thrown |-> TRUE]
  ELSE [conn |-> [c EXCEPT !.reader = 0],
        sock |-> [sk EXCEPT !.pauses = @ + 1],
        reads |-> Settle(rs, c.reader, "resolved", data),
        thrown |-> FALSE]

onDataKeepsReader(c, sk, rs, data) ==
  IF c.reader = 0
  THEN [conn |-> c, sock |-> sk, reads |-> rs, thrown |-> TRUE]
  ELSE [conn |-> c,
        sock |-> [sk EXCEPT !.paused = TRUE, !.pauses = @ + 1],
        reads |-> Settle(rs, c.reader, "resolved", data),
        thrown |-> FALSE]

onData(c, sk, rs, data) ==
  IF c.reader = 0
  THEN [conn |-> c, sock |-> sk, reads |-> rs, thrown |-> TRUE]
  ELSE [conn |-> [c EXCEPT !.reader = 0],
        sock |-> [sk EXCEPT !.paused = TRUE, !.pauses = @ + 1],
        reads |-> Settle(rs, c.reader, "resolved", data),
        thrown |-> FALSE]

onEndNoResolve(c, rs) ==
  [conn |-> [c EXCEPT !.ended = TRUE], reads |-> rs]

onEnd(c, rs) ==
  [conn |-> [c EXCEPT !.ended = TRUE, !.reader = 0],
   reads |-> IF c.reader # 0 THEN Settle(rs, c.reader, "resolved", <<>>) ELSE rs]

onErrorKeepsReader(c, rs, err) ==
  [conn |-> [c EXCEPT !.err = err],
   reads |-> IF c.reader # 0 THEN Settle(rs, c.reader, "rejected", err) ELSE rs]

onError(c, rs, err) ==
  [conn |-> [c EXCEPT !.err = err, !.reader = 0],
   reads |-> IF c.reader # 0 THEN Settle(rs, c.reader, "rejected", err) ELSE rs]

\* ------------------------------------------------------------------------
\* State
\* ------------------------------------------------------------------------
VARIABLES
  buf,      \* the DynBuf under test / of the connection
  pushed,   \* concatenation of every chunk appended so far (history)
  msgs,     \* the messages returned by cutMessage so far, in call order
  lastCut,  \* result kind of the latest cutMessage: "none", "msg" or "null"
  npush,    \* number of bufPush calls made
  conn,     \* TCPConn: err, ended, reader (0 = null, else the id of the read)
  sock,     \* the net.Socket as the adapter sees it
  reads,    \* every soRead call made, by id, with the state of its promise
  writes,   \* every soWrite call made, by id, with the state of its promise
  wire,     \* every socket.write submission, in order, with its callback state
  pc,       \* position of the serving task
  cur,      \* id of the read or write the serving task is awaiting
  caught,   \* the error newConn caught from serveClient, if any
  uncaught, \* an exception escaped an event handler
  shared,   \* per returned message: it is a view onto the buffer's storage
  buf2,     \* the DynBuf driven through the second bufPush of dynBuf.ts
  pair      \* two connections served by the same process, and whose step ran last

bufVars == <<buf, pushed, msgs, lastCut, npush>>
connVars == <<conn, sock, reads, writes, wire, uncaught>>
loopVars == <<pc, cur, caught>>
auxVars == <<shared, buf2, pair>>
vars == <<buf, pushed, msgs, lastCut, npush, conn, sock, reads, writes, wire,
          pc, cur, caught, uncaught, shared, buf2, pair>>

\* ------------------------------------------------------------------------
\* Buffer specification: chunks are appended and messages cut in any order
\* ------------------------------------------------------------------------
ShortChunks ==
  {<<>>} \cup {<<x>> : x \in {NL, ChH}}
         \cup {<<x, y>> : x \in {NL, ChH}, y \in {NL, ChL}}

LongChunks == {Rep(ChH, LongLen), Rep(ChL, LongLen - 3) \o <<NL, ChH, ChL>>}

BufChunks == ShortChunks \cup LongChunks

CountNL(s) == Cardinality({i \in 1..Len(s) : s[i] = NL})

InitWith(pc0) ==
  /\ buf = EmptyBuf
  /\ pushed = <<>>
  /\ msgs = <<>>
  /\ lastCut = "none"
  /\ npush = 0
  /\ conn = NewConn
  /\ sock = NewSock
  /\ reads = <<>>
  /\ writes = <<>>
  /\ wire = <<>>
  /\ pc = pc0
  /\ cur = 0
  /\ caught = NoErr
  /\ uncaught = FALSE
  /\ shared = <<>>
  /\ buf2 = EmptyBuf
  /\ pair = [tasks |-> [i \in Conns |-> NewTask], actor |-> 0]

BufInit == InitWith("idle")

BufPush ==
  \E chunk \in BufChunks :
    /\ npush < MaxPush
    /\ npush' = npush + 1
    /\ buf' = bufPush(buf, chunk)
    /\ pushed' = pushed \o chunk
    /\ lastCut' = "none"
    /\ UNCHANGED <<msgs, connVars, loopVars, auxVars>>

BufCut ==
  LET r == cutMessage(buf)
  IN /\ buf' = r.buf
     /\ msgs' = IF r.msg = Null THEN msgs ELSE Append(msgs, r.msg)
     /\ lastCut' = IF r.msg = Null THEN "null" ELSE "msg"
     /\ UNCHANGED <<pushed, npush, connVars, loopVars, auxVars>>

BufNext == BufPush \/ BufCut

SpecBuf == BufInit /\ [][BufNext]_vars

\* ------------------------------------------------------------------------
\* Buffer operations specification: bufPush, cutMessage and bufPop called
\* directly, bufPop within its precondition n <= buf.length (SpecOps) or
\* with any count (SpecPop).  A message that is a view onto the buffer's
\* storage reads whatever the storage holds; a reallocation leaves the
\* views on the old storage.
\* ------------------------------------------------------------------------
OpsChunks == {<<NL>>, <<ChH, NL, ChL>>, Rep(ChL, LongLen - 3) \o <<NL, ChH, ChL>>}

Refresh(ms, sh, old, new) ==
  IF Len(new.data) # Len(old.data) THEN ms
  ELSE [i \in 1..Len(ms) |->
          IF sh[i] THEN SubSeq(new.data, 1, Len(ms[i])) ELSE ms[i]]

Detach(sh, old, new) ==
  IF Len(new.data) # Len(old.data) THEN [i \in 1..Len(sh) |-> FALSE] ELSE sh

OpsInit == InitWith("idle")

OpsPush ==
  \E chunk \in OpsChunks :
    /\ npush < MaxPush
    /\ npush' = npush + 1
    /\ buf' = bufPush(buf, chunk)
    /\ pushed' = pushed \o chunk
    /\ msgs' = Refresh(msgs, shared, buf, buf')
    /\ shared' = Detach(shared, buf, buf')
    /\ lastCut' = "none"
    /\ UNCHANGED <<buf2, pair, connVars, loopVars>>

OpsCut ==
  LET r == cutMessage(buf)
  IN /\ buf' = r.buf
     /\ msgs' = IF r.msg = Null THEN msgs
                ELSE Append(Refresh(msgs, shared, buf, r.buf),
                            IF r.view THEN SubSeq(r.buf.data, 1, Len(r.msg)) ELSE r.msg)
     /\ shared' = IF r.msg = Null THEN shared ELSE Append(shared, r.view)
     /\ lastCut' = IF r.msg = Null THEN "null" ELSE "msg"
     /\ UNCHANGED <<pushed, npush, buf2, pair, connVars, loopVars>>

PopBy(n) ==
  /\ buf' = bufPop(buf, n)
  /\ msgs' = Refresh(msgs, shared, buf, buf')
  /\ lastCut' = "none"
  /\ UNCHANGED <<pushed, npush, shared, buf2, pair, connVars, loopVars>>

\* bytes removed by direct bufPop calls so far
RECURSIVE SumLen(_)
SumLen(ms) == IF ms = <<>> THEN 0 ELSE Len(ms[1]) + SumLen(Tail(ms))

Popped == Len(pushed) - buf.length - SumLen(msgs)

OpsPop ==
  \E n \in 1..MaxPop :
    /\ n <= buf.length
    /\ Popped + n <= MaxPop
    /\ PopBy(n)

OpsNext == OpsPush \/ OpsCut \/ OpsPop

SpecOps == OpsInit /\ [][OpsNext]_vars

\* bufPop with any count up to MaxPop, on a buffer fed short chunks
PopChunks == {<<NL>>, <<ChH, NL, ChL>>}

PopPush ==
  \E chunk \in PopChunks :
    /\ npush < MaxPush
    /\ npush' = npush + 1
    /\ buf' = bufPush(buf, chunk)
    /\ pushed' = pushed \o chunk
    /\ lastCut' = "none"
    /\ UNCHANGED <<msgs, shared, buf2, pair, connVars, loopVars>>

PopAny == \E n \in 1..MaxPop : Popped + n <= MaxPop /\ PopBy(n)

PopNext == PopPush \/ OpsCut \/ PopAny

SpecPop == OpsInit /\ [][PopNext]_vars

\* ------------------------------------------------------------------------
\* The two definitions of bufPush side by side: buf goes through the first,
\* buf2 through the second, with the same chunks and the same cuts
\* ------------------------------------------------------------------------
TwinInit == InitWith("idle")

TwinPush ==
  \E chunk \in BufChunks :
    /\ npush < MaxPush
    /\ npush' = npush + 1
    /\ buf' = bufPush(buf, chunk)
    /\ buf2' = bufPush2(buf2, chunk)
    /\ pushed' = pushed \o chunk
    /\ lastCut' = "none"
    /\ UNCHANGED <<msgs, shared, pair, connVars, loopVars>>

TwinCut ==
  LET r == cutMessage(buf)
  IN /\ buf' = r.buf
     /\ buf2' = cutMessage(buf2).buf
     /\ msgs' = IF r.msg = Null THEN msgs ELSE Append(msgs, r.msg)
     /\ lastCut' = IF r.msg = Null THEN "null" ELSE "msg"
     /\ UNCHANGED <<pushed, npush, shared, pair, connVars, loopVars>>

TwinNext == TwinPush \/ TwinCut

SpecTwin == TwinInit /\ [][TwinNext]_vars

\* ------------------------------------------------------------------------
\* Transport: the events a net.Socket delivers to the adapter.  'data' and
\* 'end' are emitted only while the stream is flowing and 'end' once; an
\* 'error' is emitted by destroying the socket with that error, so at most
\* once and at any time before the socket is destroyed.
\* ------------------------------------------------------------------------
ConnChunks == {<<ChH, NL>>, <<ChL>>}
WriteData == {<<>>, <<ChH, NL>>}

DataEventFrom(chunks) ==
  \E chunk \in chunks :
    /\ ~uncaught /\ ~sock.paused /\ ~sock.destroyed /\ ~sock.endSeen
    /\ LET r == onData(conn, sock, reads, chunk)
       IN /\ conn' = r.conn
          /\ sock' = r.sock
          /\ reads' = r.reads
          /\ uncaught' = r.thrown
    /\ UNCHANGED <<writes, wire>>

DataEvent == DataEventFrom(ConnChunks)

EndEvent ==
  /\ ~uncaught /\ ~sock.paused /\ ~sock.destroyed /\ ~sock.endSeen
  /\ LET r == onEnd(conn, reads)
     IN /\ conn' = r.conn
        /\ reads' = r.reads
  /\ sock' = [sock EXCEPT !.endSeen = TRUE]
  /\ UNCHANGED <<writes, wire, uncaught>>

ErrorEvent ==
  \E e \in TransportErrors :
    /\ ~uncaught /\ ~sock.destroyed
    /\ LET r == onError(conn, reads, e)
       IN /\ conn' = r.conn
          /\ reads' = r.reads
    /\ sock' = [sock EXCEPT !.destroyed = TRUE]
    /\ UNCHANGED <<writes, wire, uncaught>>

\* the transport confirms submission k
WriteOk ==
  \E k \in 1..Len(wire) :
    /\ ~uncaught /\ ~sock.destroyed
    /\ wire[k].cb = "pending"
    /\ \A j \in 1..(k - 1) : wire[j].cb # "pending"
    /\ LET w == writeCallback(writes, wire, k, NoErr)
       IN /\ writes' = w.writes
          /\ wire' = w.wire
    /\ UNCHANGED <<conn, sock, reads, uncaught>>

\* the transport fails submission k: the callback gets the error, and a
\* socket not yet destroyed is destroyed with it, which emits 'error'
WriteFail ==
  \E k \in 1..Len(wire), e \in TransportErrors :
    /\ ~uncaught
    /\ wire[k].cb = "pending"
    /\ \A j \in 1..(k - 1) : wire[j].cb # "pending"
    /\ LET w == writeCallback(writes, wire, k, e)
           r == IF sock.destroyed THEN [conn |-> conn, reads |-> reads]
                ELSE onError(conn, reads, e)
       IN /\ writes' = w.writes
          /\ wire' = w.wire
          /\ conn' = r.conn
          /\ reads' = r.reads
    /\ sock' = [sock EXCEPT !.destroyed = TRUE]
    /\ UNCHANGED uncaught

\* ------------------------------------------------------------------------
\* Adapter specification: any caller may call soRead and soWrite at any time
\* ------------------------------------------------------------------------
ConnInit == InitWith("caller")

CallRead ==
  /\ ~uncaught
  /\ Len(reads) < MaxReads
  /\ LET r == soRead(conn, sock, reads)
     IN /\ conn' = r.conn
        /\ sock' = r.sock
        /\ reads' = r.reads
  /\ UNCHANGED <<writes, wire, uncaught>>

CallWrite ==
  \E data \in WriteData :
    /\ ~uncaught
    /\ Len(writes) < MaxWrites
    /\ LET w == soWrite(conn, writes, wire, data)
       IN /\ writes' = w.writes
          /\ wire' = w.wire
    /\ UNCHANGED <<conn, sock, reads, uncaught>>

ConnNext ==
  \/ CallRead /\ UNCHANGED <<bufVars, loopVars, auxVars>>
  \/ CallWrite /\ UNCHANGED <<bufVars, loopVars, auxVars>>
  \/ DataEvent /\ UNCHANGED <<bufVars, loopVars, auxVars>>
  \/ EndEvent /\ UNCHANGED <<bufVars, loopVars, auxVars>>
  \/ ErrorEvent /\ UNCHANGED <<bufVars, loopVars, auxVars>>
  \/ WriteOk /\ UNCHANGED <<bufVars, loopVars, auxVars>>
  \/ WriteFail /\ UNCHANGED <<bufVars, loopVars, auxVars>>

SpecConn == ConnInit /\ [][ConnNext]_vars

\* ------------------------------------------------------------------------
\* Adapter specification with a forced close: something outside the adapter
\* (a timeout wrapper) calls socket.destroy() with no error.  The socket
\* then emits 'close' only, for which soInit registers no handler.
\* ------------------------------------------------------------------------
ForceClose ==
  /\ ~uncaught /\ ~sock.destroyed
  /\ sock' = [sock EXCEPT !.destroyed = TRUE, !.closedReader = conn.reader]
  /\ UNCHANGED <<conn, reads, writes, wire, uncaught>>

CloseEvents ==
  \/ DataEvent /\ UNCHANGED <<bufVars, loopVars, auxVars>>
  \/ EndEvent /\ UNCHANGED <<bufVars, loopVars, auxVars>>
  \/ ErrorEvent /\ UNCHANGED <<bufVars, loopVars, auxVars>>
  \/ WriteOk /\ UNCHANGED <<bufVars, loopVars, auxVars>>
  \/ WriteFail /\ UNCHANGED <<bufVars, loopVars, auxVars>>

CloseNext ==
  \/ CallRead /\ UNCHANGED <<bufVars, loopVars, auxVars>>
  \/ CallWrite /\ UNCHANGED <<bufVars, loopVars, auxVars>>
  \/ CloseEvents
  \/ ForceClose /\ UNCHANGED <<bufVars, loopVars, auxVars>>

SpecClose == ConnInit /\ [][CloseNext]_vars

\* an event the socket has ready is delivered
FairClose == SpecClose /\ WF_vars(CloseEvents)

\* ------------------------------------------------------------------------
\* Serving task: newConn and serveClient of src/unnamed/part_001.  The task
\* runs from one await to the next without interruption; socket events are
\* delivered only while it is suspended on a promise that is still pending
\* (or after it finished).
\* ------------------------------------------------------------------------
Quiescent ==
  \/ pc = "awaitRead" /\ reads[cur].state = "pending"
  \/ pc = "awaitWrite" /\ writes[cur].state = "pending"
  \/ pc = "done"

\* number of chunks the client has delivered so far
NData == Cardinality({i \in 1..Len(reads) :
                       reads[i].state = "resolved" /\ reads[i].value # <<>>})

Init == InitWith("read")

\* const data = await soRead(conn)        (the call)
LoopRead ==
  /\ pc = "read"
  /\ ~uncaught
  /\ LET r == soRead(conn, sock, reads)
         p == r.reads[Len(r.reads)]
     IN /\ conn' = r.conn
        /\ sock' = r.sock
        /\ reads' = r.reads
        /\ pc' = IF p.state = "threw" THEN "finally" ELSE "awaitRead"
        /\ caught' = IF p.state = "threw" THEN p.value ELSE caught
        /\ cur' = Len(r.reads)
  /\ UNCHANGED <<writes, wire, uncaught, bufVars, auxVars>>

\* the write step of serveClient, as a function of the data read
serveWriteNoAwait(data) ==
  LET w == soWrite(conn, writes, wire, data)
  IN [writes |-> w.writes, wire |-> w.wire, pc |-> "read"]

serveWrite(data) ==
  LET w == soWrite(conn, writes, wire, data)
  IN [writes |-> w.writes, wire |-> w.wire, pc |-> "awaitWrite"]

\* the read promise settled: break on an empty buffer, throw on rejection,
\* else await soWrite(conn, data)
LoopAfterRead ==
  /\ pc = "awaitRead"
  /\ ~uncaught
  /\ reads[cur].state # "pending"
  /\ IF reads[cur].state = "rejected"
     THEN /\ pc' = "finally"
          /\ caught' = reads[cur].value
          /\ UNCHANGED <<writes, wire, cur>>
     ELSE IF Len(reads[cur].value) = 0
     THEN /\ pc' = "finally"
          /\ UNCHANGED <<writes, wire, cur, caught>>
     ELSE LET w == serveWrite(reads[cur].value)
          IN /\ writes' = w.writes
             /\ wire' = w.wire
             /\ pc' = w.pc
             /\ cur' = Len(w.writes)
             /\ UNCHANGED caught
  /\ UNCHANGED <<conn, sock, reads, uncaught, bufVars, auxVars>>

\* the write promise settled: throw on rejection, else loop
LoopAfterWrite ==
  /\ pc = "awaitWrite"
  /\ ~uncaught
  /\ writes[cur].state # "pending"
  /\ pc' = IF writes[cur].state = "rejected" THEN "finally" ELSE "read"
  /\ caught' = IF writes[cur].state = "rejected" THEN writes[cur].value ELSE caught
  /\ UNCHANGED <<cur, connVars, bufVars, auxVars>>

FinallySkipsDestroy ==
  /\ pc = "finally"
  /\ ~uncaught
  /\ sock' = IF caught = NoErr THEN sock
             ELSE [sock EXCEPT !.destroyed = TRUE, !.destroys = @ + 1]
  /\ pc' = "done"
  /\ UNCHANGED <<cur, caught, conn, reads, writes, wire, uncaught, bufVars, auxVars>>

\* newConn: finally { socket.destroy() }
Finally ==
  /\ pc = "finally"
  /\ ~uncaught
  /\ sock' = [sock EXCEPT !.destroyed = TRUE, !.destroys = @ + 1]
  /\ pc' = "done"
  /\ UNCHANGED <<cur, caught, conn, reads, writes, wire, uncaught, bufVars, auxVars>>

ServeData == Quiescent /\ NData < MaxData /\ DataEvent /\ UNCHANGED <<bufVars, loopVars, auxVars>>
ServeEnd == Quiescent /\ EndEvent /\ UNCHANGED <<bufVars, loopVars, auxVars>>
ServeError == Quiescent /\ ErrorEvent /\ UNCHANGED <<bufVars, loopVars, auxVars>>
ServeWriteOk == Quiescent /\ WriteOk /\ UNCHANGED <<bufVars, loopVars, auxVars>>
ServeWriteFail == Quiescent /\ WriteFail /\ UNCHANGED <<bufVars, loopVars, auxVars>>

LoopStep == LoopRead \/ LoopAfterRead \/ LoopAfterWrite \/ Finally

Next ==
  \/ LoopRead
  \/ LoopAfterRead
  \/ LoopAfterWrite
  \/ Finally
  \/ ServeData
  \/ ServeEnd
  \/ ServeError
  \/ ServeWriteOk
  \/ ServeWriteFail

Spec == Init /\ [][Next]_vars

\* the task's continuations are microtasks: once runnable they run
FairSpec == Spec /\ WF_vars(LoopStep)

\* ------------------------------------------------------------------------
\* Two connections served by one process.  server.on("connection", newConn)
\* starts one newConn task per socket; each task is a record of the state
\* of its connection and of its position in newConn/serveClient.
\* ------------------------------------------------------------------------
MaxPairData == 1

\* soInit: the conn the handlers registered on socket i close over
CapturedShared(i) == 1

Captured(i) == i

taskQuiescent(t) ==
  \/ t.pc = "awaitRead" /\ t.reads[t.cur].state = "pending"
  \/ t.pc = "awaitWrite" /\ t.writes[t.cur].state = "pending"
  \/ t.pc = "done"

taskNData(t) == Cardinality({k \in 1..Len(t.reads) :
                  t.reads[k].state = "resolved" /\ t.reads[k].value # <<>>})

\* the next continuation of the task newConn(socket), as a function of the
\* task: the soRead call, the step after the read settled, the step after
\* the write settled, the finally block
newConn(t) ==
  IF t.pc = "read"
  THEN LET r == soRead(t.conn, t.sock, t.reads)
           p == r.reads[Len(r.reads)]
       IN [t EXCEPT !.conn = r.conn, !.sock = r.sock, !.reads = r.reads,
                    !.pc = IF p.state = "threw" THEN "finally" ELSE "awaitRead",
                    !.caught = IF p.state = "threw" THEN p.value ELSE @,
                    !.cur = Len(r.reads)]
  ELSE IF t.pc = "awaitRead"
  THEN IF t.reads[t.cur].state = "rejected"
       THEN [t EXCEPT !.pc = "finally", !.caught = t.reads[t.cur].value]
       ELSE IF Len(t.reads[t.cur].value) = 0
       THEN [t EXCEPT !.pc = "finally"]
       ELSE LET w == soWrite(t.conn, t.writes, t.wire, t.reads[t.cur].value)
            IN [t EXCEPT !.writes = w.writes, !.wire = w.wire,
                         !.pc = "awaitWrite", !.cur = Len(w.writes)]
  ELSE IF t.pc = "awaitWrite"
  THEN [t EXCEPT !.pc = IF t.writes[t.cur].state = "rejected" THEN "finally" ELSE "read",
                 !.caught = IF t.writes[t.cur].state = "rejected"
                            THEN t.writes[t.cur].value ELSE @]
  ELSE [t EXCEPT !.sock = [@ EXCEPT !.destroyed = TRUE, !.destroys = @ + 1],
                 !.pc = "done"]

PairInit == InitWith("pair")

\* events are delivered once every task has run its continuations
PairQuiescent == \A i \in Conns : taskQuiescent(pair.tasks[i])

PairLoop(i) ==
  /\ ~uncaught
  /\ ~taskQuiescent(pair.tasks[i])
  /\ pair' = [tasks |-> [pair.tasks EXCEPT ![i] = newConn(@)], actor |-> i]
  /\ UNCHANGED <<uncaught, bufVars, conn, sock, reads, writes, wire, loopVars,
                 shared, buf2>>

PairData(i) ==
  \E chunk \in ConnChunks :
    LET ts == pair.tasks
        c == Captured(i)
        r == onData(ts[c].conn, ts[c].sock, ts[c].reads, chunk)
    IN /\ ~uncaught /\ PairQuiescent
       /\ ~ts[i].sock.paused /\ ~ts[i].sock.destroyed /\ ~ts[i].sock.endSeen
       /\ taskNData(ts[i]) < MaxPairData
       /\ pair' = [tasks |-> [ts EXCEPT ![c] = [@ EXCEPT !.conn = r.conn,
                                                         !.sock = r.sock,
                                                         !.reads = r.reads]],
                   actor |-> i]
       /\ uncaught' = r.thrown
       /\ UNCHANGED <<bufVars, conn, sock, reads, writes, wire, loopVars, shared, buf2>>

PairEnd(i) ==
  LET ts == pair.tasks
      c == Captured(i)
      r == onEnd(ts[c].conn, ts[c].reads)
      handled == [ts EXCEPT ![c] = [@ EXCEPT !.conn = r.conn, !.reads = r.reads]]
  IN /\ ~uncaught /\ PairQuiescent
     /\ ~ts[i].sock.paused /\ ~ts[i].sock.destroyed /\ ~ts[i].sock.endSeen
     /\ pair' = [tasks |-> [handled EXCEPT ![i].sock.endSeen = TRUE], actor |-> i]
     /\ UNCHANGED <<uncaught, bufVars, conn, sock, reads, writes, wire, loopVars,
                    shared, buf2>>

PairError(i) ==
  \E e \in TransportErrors :
    LET ts == pair.tasks
        c == Captured(i)
        r == onError(ts[c].conn, ts[c].reads, e)
        handled == [ts EXCEPT ![c] = [@ EXCEPT !.conn = r.conn, !.reads = r.reads]]
    IN /\ ~uncaught /\ PairQuiescent
       /\ ~ts[i].sock.destroyed
       /\ pair' = [tasks |-> [handled EXCEPT ![i].sock.destroyed = TRUE], actor |-> i]
       /\ UNCHANGED <<uncaught, bufVars, conn, sock, reads, writes, wire, loopVars,
                      shared, buf2>>

PairWriteOk(i) ==
  \E k \in 1..Len(pair.tasks[i].wire) :
    LET ts == pair.tasks
        w == writeCallback(ts[i].writes, ts[i].wire, k, NoErr)
    IN /\ ~uncaught /\ PairQuiescent
       /\ ~ts[i].sock.destroyed
       /\ ts[i].wire[k].cb = "pending"
       /\ \A j \in 1..(k - 1) : ts[i].wire[j].cb # "pending"
       /\ pair' = [tasks |-> [ts EXCEPT ![i] = [@ EXCEPT !.writes = w.writes,
                                                         !.wire = w.wire]],
                   actor |-> i]
       /\ UNCHANGED <<uncaught, bufVars, conn, sock, reads, writes, wire, loopVars,
                      shared, buf2>>

PairWriteFail(i) ==
  \E k \in 1..Len(pair.tasks[i].wire), e \in TransportErrors :
    LET ts == pair.tasks
        c == Captured(i)
        w == writeCallback(ts[i].writes, ts[i].wire, k, e)
        called == [ts EXCEPT ![i] = [@ EXCEPT !.writes = w.writes, !.wire = w.wire]]
        r == onError(called[c].conn, called[c].reads, e)
        handled == IF ts[i].sock.destroyed THEN called
                   ELSE [called EXCEPT ![c] = [@ EXCEPT !.conn = r.conn,
                                                        !.reads = r.reads]]
    IN /\ ~uncaught /\ PairQuiescent
       /\ ts[i].wire[k].cb = "pending"
       /\ \A j \in 1..(k - 1) : ts[i].wire[j].cb # "pending"
       /\ pair' = [tasks |-> [handled EXCEPT ![i].sock.destroyed = TRUE], actor |-> i]
       /\ UNCHANGED <<uncaught, bufVars, conn, sock, reads, writes, wire, loopVars,
                      shared, buf2>>

PairNext ==
  \E i \in Conns :
    \/ PairLoop(i)
    \/ PairData(i)
    \/ PairEnd(i)
    \/ PairError(i)
    \/ PairWriteOk(i)
    \/ PairWriteFail(i)

SpecPair == PairInit /\ [][PairNext]_vars

\* ------------------------------------------------------------------------
\* Message serving task: the line server the end-to-end tests talk to.  It
\* reads a chunk, appends it to the connection's DynBuf and answers every
\* complete message before reading again; "quit\n" is answered with
\* "Bye.\n" and ends the loop.
\* ------------------------------------------------------------------------
QUIT == <<113, 117, 105, 116, 10>>
BYE == <<66, 121, 101, 46, 10>>
ECHO == <<69, 99, 104, 111, 58, 32>>
HELLO == <<72, 101, 108, 108, 111, 10>>
PIPELINED == <<104, 101, 108, 108, 10, 49, 50, 51, 52, 10>> \o QUIT

MsgChunks ==
  {PIPELINED, SubSeq(PIPELINED, 1, 10), HELLO, SubSeq(QUIT, 1, 2), SubSeq(QUIT, 3, 5) \o HELLO}

Reply(m) == IF m = QUIT THEN BYE ELSE ECHO \o m

MsgInit == InitWith("read")

\* the read promise settled: stop on an empty buffer, throw on rejection,
\* else append the chunk to the buffer
MsgAfterRead ==
  /\ pc = "awaitRead"
  /\ ~uncaught
  /\ reads[cur].state # "pending"
  /\ IF reads[cur].state = "rejected"
     THEN /\ pc' = "finally"
          /\ caught' = reads[cur].value
          /\ UNCHANGED <<buf, pushed, npush>>
     ELSE IF Len(reads[cur].value) = 0
     THEN /\ pc' = "finally"
          /\ UNCHANGED <<caught, buf, pushed, npush>>
     ELSE /\ buf' = bufPush(buf, reads[cur].value)
          /\ pushed' = pushed \o reads[cur].value
          /\ npush' = npush + 1
          /\ pc' = "cut"
          /\ UNCHANGED caught
  /\ UNCHANGED <<cur, msgs, lastCut, connVars, auxVars>>

\* extract the next message and await the write of its reply, or go back
\* to reading when the buffer holds no complete message
MsgCut ==
  /\ pc = "cut"
  /\ ~uncaught
  /\ LET r == cutMessage(buf)
     IN IF r.msg = Null
        THEN /\ pc' = "read"
             /\ lastCut' = "null"
             /\ UNCHANGED <<buf, msgs, writes, wire, cur>>
        ELSE LET w == soWrite(conn, writes, wire, Reply(r.msg))
             IN /\ buf' = r.buf
                /\ msgs' = Append(msgs, r.msg)
                /\ lastCut' = "msg"
                /\ writes' = w.writes
                /\ wire' = w.wire
                /\ cur' = Len(w.writes)
                /\ pc' = "awaitWrite"
  /\ UNCHANGED <<pushed, npush, caught, conn, sock, reads, uncaught, auxVars>>

\* the reply's write promise settled: throw on rejection, leave the loop
\* after the reply to quit, else look for the next message
MsgAfterWrite ==
  /\ pc = "awaitWrite"
  /\ ~uncaught
  /\ writes[cur].state # "pending"
  /\ pc' = IF writes[cur].state = "rejected" \/ msgs[Len(msgs)] = QUIT
           THEN "finally" ELSE "cut"
  /\ caught' = IF writes[cur].state = "rejected" THEN writes[cur].value ELSE caught
  /\ UNCHANGED <<cur, connVars, bufVars, auxVars>>

MsgData ==
  Quiescent /\ NData < MaxData /\ DataEventFrom(MsgChunks) /\ UNCHANGED <<bufVars, loopVars, auxVars>>

MsgNext ==
  \/ LoopRead
  \/ MsgAfterRead
  \/ MsgCut
  \/ MsgAfterWrite
  \/ Finally
  \/ MsgData
  \/ ServeEnd
  \/ ServeError
  \/ ServeWriteOk
  \/ ServeWriteFail

SpecMsg == MsgInit /\ [][MsgNext]_vars

\* ---- reference framing of a byte stream, independent of the buffer code ----
\* the complete newline-terminated messages of stream s, in order
\* position of the i-th newline of s (0 for i = 0)
NthNL(s, i) ==
  IF i = 0 THEN 0
  ELSE CHOOSE p \in 1..Len(s) :
         s[p] = NL /\ Cardinality({q \in 1..p : s[q] = NL}) = i

Lines(s) == [i \in 1..CountNL(s) |-> SubSeq(s, NthNL(s, i - 1) + 1, NthNL(s, i))]

\* the bytes of s after its last newline
Remainder(s) == SubSeq(s, NthNL(s, CountNL(s)) + 1, Len(s))

\* C1: from an empty buffer, whatever the chunking, the i-th successful
\* cutMessage returns the i-th newline-terminated message of the appended
\* stream, cutMessage returns null only after all k messages were returned,
\* and then buf.length bytes at the front of the buffer are exactly the bytes
\* after the last newline.
C1_Framing ==
  /\ Len(msgs) <= CountNL(pushed)
  /\ \A i \in 1..Len(msgs) : msgs[i] = Lines(pushed)[i]
  /\ lastCut = "null" =>
       /\ Len(msgs) = CountNL(pushed)
       /\ buf.length = Len(Remainder(pushed))
       /\ Subarray(buf.data, 0, buf.length) = Remainder(pushed)

\* a run that reallocated past 32 bytes, cut at least two messages (one of
\* them longer than any short chunk) and ended on null with bytes left over
C1_Witness ==
  /\ lastCut = "null"
  /\ Len(msgs) >= 2
  /\ \E i \in 1..Len(msgs) : Len(msgs[i]) > 2 /\ Len(msgs[i]) < LongLen - 2
  /\ Len(buf.data) > 32
  /\ buf.length > 0

\* ---- step predicates over the adapter state ----
ReadCalled == Len(reads') = Len(reads) + 1
WriteCalled == Len(writes') = Len(writes) + 1
EventFired ==
  \/ sock'.pauses > sock.pauses
  \/ sock'.endSeen /\ ~sock.endSeen
  \/ conn'.err # conn.err
LastRead == reads'[Len(reads')]
LastWrite == writes'[Len(writes')]

\* C4: soRead called while a read is pending throws the concurrent-read
\* error and changes nothing (connection, socket, earlier reads, writes);
\* the read that was pending is then settled by the next data, end or error
\* event, which clears the reader.
C4_ConcurrentRead ==
  /\ [][(ReadCalled /\ conn.reader # 0) =>
          /\ LastRead.state = "threw"
          /\ LastRead.value = ErrConcurrentRead
          /\ conn' = conn
          /\ sock' = sock
          /\ SubSeq(reads', 1, Len(reads)) = reads
          /\ UNCHANGED <<writes, wire>>]_vars
  /\ [][(EventFired /\ conn.reader # 0) =>
          /\ conn'.reader = 0
          /\ reads[conn.reader].state = "pending"
          /\ reads'[conn.reader].state \in {"resolved", "rejected"}
          /\ reads'[conn.reader].settles = 1]_vars

\* a second soRead threw while read 1 was pending, and read 1 was then
\* fulfilled with data
C4_Witness ==
  /\ Len(reads) >= 2
  /\ reads[2].state = "threw"
  /\ reads[1].state = "resolved"
  /\ reads[1].value # <<>>

\* C5: with ended latched and no error latched, a soRead call resolves at
\* once with an empty buffer, registers no reader and does not touch the
\* socket (no resume).
C5_ReadAfterEnd ==
  [][(ReadCalled /\ conn.ended /\ conn.err = NoErr) =>
      /\ LastRead = Promise("resolved", <<>>)
      /\ conn' = conn
      /\ conn'.reader = 0
      /\ sock' = sock]_vars

\* two reads after the end event that fulfilled read 1, both empty at once
C5_Witness ==
  /\ conn.ended /\ conn.err = NoErr
  /\ Len(reads) = 3
  /\ sock.resumes = 1
  /\ \A i \in 1..3 : reads[i] = Promise("resolved", <<>>)

\* C6: with an error latched, a soRead call (none pending) rejects at once
\* with the latched error and registers no reader, also when ended is
\* latched too.
C6_ReadAfterError ==
  [][(ReadCalled /\ conn.err # NoErr) =>
      /\ LastRead = Promise("rejected", conn.err)
      /\ conn' = conn
      /\ conn'.reader = 0
      /\ sock' = sock]_vars

\* end and error both latched, and a later read rejected with the error
C6_Witness ==
  /\ conn.ended /\ conn.err # NoErr
  /\ Len(reads) >= 2
  /\ reads[1] = Promise("resolved", <<>>)
  /\ reads[Len(reads)] = Promise("rejected", conn.err)

\* C7: ended, once true, stays true, and err, once non-null, stays non-null,
\* across every call and event.
C7_Latched ==
  [][/\ (conn.ended => conn'.ended)
     /\ (conn.err # NoErr => conn'.err # NoErr)]_vars

\* both latches set, with reads and writes made after they were set
C7_Witness ==
  /\ conn.ended /\ conn.err # NoErr
  /\ Len(reads) = MaxReads
  /\ reads[Len(reads)].state = "rejected"
  /\ Len(writes) >= 1
  /\ writes[Len(writes)] = WPromise("rejected", conn.err, <<ChH, NL>>)

\* C8: soWrite of zero bytes rejects with the zero-length error and soWrite
\* with an error latched rejects with that error, both without a
\* socket.write; otherwise the data is submitted once and the promise is
\* pending exactly until the callback of that submission fires, resolving
\* on success and rejecting with the callback's error.
C8_Write ==
  /\ [][WriteCalled =>
          /\ (Len(LastWrite.data) = 0 =>
                /\ LastWrite.state = "rejected"
                /\ LastWrite.value = ErrZeroLength
                /\ wire' = wire)
          /\ (Len(LastWrite.data) > 0 /\ conn.err # NoErr =>
                /\ LastWrite.state = "rejected"
                /\ LastWrite.value = conn.err
                /\ wire' = wire)
          /\ (Len(LastWrite.data) > 0 /\ conn.err = NoErr =>
                /\ LastWrite.state = "pending"
                /\ wire' = Append(wire, Submission(Len(writes'), LastWrite.data)))]_vars
  /\ [](\A k \in 1..Len(wire) :
          /\ \A j \in 1..Len(wire) : wire[j].id = wire[k].id => j = k
          /\ writes[wire[k].id].data = wire[k].data
          /\ (wire[k].cb = "pending") = (writes[wire[k].id].state = "pending")
          /\ (wire[k].cb = "ok") = (writes[wire[k].id].state = "resolved")
          /\ (wire[k].cb = "err") =
               (writes[wire[k].id].state = "rejected"
                /\ writes[wire[k].id].value \in TransportErrors))

\* a zero-length write, a submitted write that the transport failed, and
\* nothing else on the wire
C8_Witness ==
  /\ Len(writes) = 2
  /\ writes[1] = WPromise("rejected", ErrZeroLength, <<>>)
  /\ writes[2].state = "rejected" /\ writes[2].value \in TransportErrors
  /\ Len(wire) = 1 /\ wire[1].cb = "err"

\* C9: in the serving loop a read and a write are never outstanding
\* together, and soRead is called only when every earlier read returned
\* data whose echo was submitted and confirmed by the transport.
C9_Alternate ==
  /\ [](~(\E i \in 1..Len(reads) : reads[i].state = "pending"
          /\ \E k \in 1..Len(wire) : wire[k].cb = "pending"))
  /\ [](conn.reader # 0 => \A k \in 1..Len(writes) : writes[k].state # "pending")
  /\ [][ReadCalled =>
          /\ Len(wire) = Len(reads)
          /\ Len(writes) = Len(reads)
          /\ \A i \in 1..Len(reads) :
               /\ reads[i].state = "resolved"
               /\ Len(reads[i].value) > 0
               /\ wire[i].data = reads[i].value
               /\ wire[i].cb = "ok"
               /\ writes[i].state = "resolved"]_vars

\* two chunks were echoed and confirmed and a third read is pending
C9_Witness ==
  /\ Len(reads) = 3
  /\ reads[3].state = "pending"
  /\ Len(wire) = 2
  /\ wire[1].cb = "ok" /\ wire[2].cb = "ok"

\* C10: an end event arriving while a read is pending resolves that read
\* with an empty buffer and latches no error; the serving task then leaves
\* the loop without an error being caught and newConn destroys the socket.
C10_HalfClose ==
  /\ [][(sock'.endSeen /\ ~sock.endSeen /\ conn.reader # 0) =>
          /\ reads'[conn.reader] = Promise("resolved", <<>>)
          /\ conn'.reader = 0
          /\ conn'.err = NoErr
          /\ pc' = "awaitRead" /\ cur' = conn.reader]_vars
  /\ ((pc = "awaitRead" /\ conn.ended /\ reads[cur] = Promise("resolved", <<>>))
        ~> (/\ pc = "done"
            /\ sock.destroyed /\ sock.destroys = 1
            /\ caught = NoErr
            /\ conn.err = NoErr))

\* the client sent bytes without a newline, then half-closed; the task is
\* done with nothing caught and the socket destroyed
C10_Witness ==
  /\ pc = "done"
  /\ conn.ended /\ conn.err = NoErr /\ caught = NoErr
  /\ sock.destroyed
  /\ Len(reads) = 2
  /\ reads[1].value = <<ChL>>
  /\ reads[2] = Promise("resolved", <<>>)

\* ---- the message loop against the reference framing ----
HasQuit(s) == \E i \in 1..CountNL(s) : Lines(s)[i] = QUIT

\* number of messages of s up to and including the first "quit\n"
Answered(s) ==
  IF HasQuit(s)
  THEN CHOOSE i \in 1..CountNL(s) :
         Lines(s)[i] = QUIT /\ \A j \in 1..(i - 1) : Lines(s)[j] # QUIT
  ELSE CountNL(s)

RepliesInOrder ==
  /\ Len(wire) <= CountNL(pushed)
  /\ \A i \in 1..Len(wire) :
       /\ wire[i].id = i
       /\ wire[i].data = Reply(Lines(pushed)[i])

ChunkDone == pc \in {"read", "awaitRead", "finally", "done"} /\ caught = NoErr

QuitSeen == \E i \in 1..Len(msgs) : msgs[i] = QUIT

C11_DestroyOnce ==
  /\ [](sock.destroys = IF pc = "done" THEN 1 ELSE 0)
  /\ [](pc = "done" => sock.destroyed)
  /\ [][sock'.destroys # sock.destroys => pc = "finally" /\ pc' = "done"]_vars
  /\ (pc = "finally" ~> (pc = "done" /\ sock.destroys = 1))

\* the loop was left by a rejected write after one chunk had been echoed;
\* the error was caught and the socket destroyed once
C11_Witness ==
  /\ pc = "done"
  /\ sock.destroys = 1
  /\ Len(writes) = 2
  /\ writes[1].state = "resolved"
  /\ writes[2].state = "rejected"
  /\ caught = writes[2].value

\* ---- capacity ----
Capacity == Len(buf.data)

\* c is 32 * 2^k for some k >= 0
IsGrownCap(c) == \E k \in 0..16 : c = 32 * (2 ^ k)

\* C12 as stated: the capacity is 32 or a power-of-two multiple of 32 and
\* at least buf.length, in every state from the empty buffer on.
C12_CapacityPow2 ==
  /\ IsGrownCap(Capacity)
  /\ Capacity >= buf.length

\* C12 amended: the capacity is 0 until the first bytes are stored (the
\* buffer then holds none) and 32 * 2^k afterwards, it is at least
\* buf.length, and no bufPush, bufPop or cutMessage reduces it.
C12_Capacity ==
  /\ [](/\ Capacity = 0 => buf.length <= 0
        /\ Capacity # 0 => IsGrownCap(Capacity)
        /\ Capacity >= buf.length)
  /\ [][Len(buf'.data) >= Len(buf.data)]_vars

\* the buffer grew to 128 bytes and was then drained to at most two bytes
C12_Witness ==
  /\ Capacity = 128
  /\ buf.length >= 0 /\ buf.length <= 2
  /\ Len(msgs) >= 1

\* C16: buf.length is never negative, whatever count bufPop is called with.
C16_LengthNonNegative == buf.length >= 0

\* C17: the bytes of a message returned by cutMessage never change
\* afterwards, through any later bufPop, bufPush or cutMessage, and a
\* cutMessage that returns null leaves buf.length and the bytes
\* [0, length) as they were.
C17_IndependentCopy ==
  /\ [][\A i \in 1..Len(msgs) : msgs'[i] = msgs[i]]_vars
  /\ [][lastCut' = "null" =>
          /\ buf'.length = buf.length
          /\ Subarray(buf'.data, 0, buf'.length) = Subarray(buf.data, 0, buf.length)
          /\ msgs' = msgs]_vars

\* a message was returned, later appends reallocated the storage and later
\* cuts shifted it, and a cut then returned null with bytes left over
C17_Witness ==
  /\ Len(msgs) >= 2
  /\ msgs[1] = <<ChH, NL>>
  /\ Capacity > 32
  /\ lastCut = "null"
  /\ buf.length > 0

\* C19: after the same appends and cuts the buffer driven through the
\* second bufPush has the same capacity, length and valid bytes as the one
\* driven through the first, and the valid bytes are the appended bytes
\* not yet cut.
C19_SamePush ==
  /\ Len(buf2.data) = Len(buf.data)
  /\ buf2.length = buf.length
  /\ Subarray(buf2.data, 0, buf2.length) = Subarray(buf.data, 0, buf.length)

\* C13 as stated: whenever no read is pending the socket is paused, and no
\* exception escapes the data handler.
C13_PausedWhenIdle ==
  /\ conn.reader = 0 => sock.paused
  /\ ~uncaught

\* C13 amended: whenever no read is pending the socket is paused, or its
\* stream has ended, or it has been destroyed (the end and error handlers
\* clear the reader without pausing); a data event arrives only with a read
\* pending, so the data handler never throws.
C13_NoDataWhenIdle ==
  /\ [](conn.reader = 0 => sock.paused \/ sock.endSeen \/ sock.destroyed)
  /\ [][sock'.pauses # sock.pauses => conn.reader # 0]_vars
  /\ [](~uncaught)

\* read 1 was fulfilled by data, read 2 by the end event; no read is
\* pending and the socket is still flowing
C13_Witness ==
  /\ conn.reader = 0
  /\ ~sock.paused /\ sock.endSeen /\ ~sock.destroyed
  /\ sock.resumes = 2
  /\ reads[1].state = "resolved" /\ reads[1].value # <<>>
  /\ reads[2] = Promise("resolved", <<>>)

\* C14: a registered read is the connection's reader exactly while its
\* promise is pending; the first data, end or error event after it was
\* registered settles it and clears the reader in the same step, no read is
\* ever resolved or rejected twice, and an event that finds no reader
\* settles nothing.
C14_SettledOnce ==
  /\ [](\A i \in 1..Len(reads) :
          /\ reads[i].settles <= 1
          /\ (reads[i].state = "pending") = (conn.reader = i))
  /\ [][(EventFired /\ conn.reader # 0) =>
          /\ conn'.reader = 0
          /\ reads'[conn.reader].settles = 1
          /\ \A j \in 1..Len(reads) : j # conn.reader => reads'[j] = reads[j]]_vars
  /\ [][(EventFired /\ conn.reader = 0) => reads' = reads]_vars

\* read 1 was settled by data, read 2 by the end event, and the error event
\* that came after found no reader
C14_Witness ==
  /\ conn.ended /\ conn.err # NoErr
  /\ sock.resumes = 2
  /\ Len(reads) = 2
  /\ reads[1].state = "resolved" /\ reads[1].value # <<>> /\ reads[1].settles = 1
  /\ reads[2] = Promise("resolved", <<>>)

\* C15: a read that was pending when the socket was destroyed from outside
\* is eventually rejected.
C15_ForcedCloseRejects ==
  (sock.closedReader # 0) ~>
    (sock.closedReader # 0 /\ reads[sock.closedReader].state = "rejected")

\* C20: a reader is registered only while neither err nor ended is latched:
\* soRead registers none in a terminal state, and the step that latches
\* ended or err leaves no reader.
C20_ReaderOnlyWhenLive ==
  /\ [](conn.reader # 0 => conn.err = NoErr /\ ~conn.ended)
  /\ [][(ReadCalled /\ (conn.err # NoErr \/ conn.ended)) => conn'.reader = 0]_vars
  /\ [][(conn'.ended # conn.ended \/ conn'.err # conn.err) => conn'.reader = 0]_vars

\* the error event rejected the pending read 1 and cleared the reader, and
\* read 2, called afterwards, was rejected without registering
C20_Witness ==
  /\ conn.err # NoErr /\ ~conn.ended
  /\ conn.reader = 0
  /\ sock.resumes = 1
  /\ Len(reads) = 2
  /\ reads[1] = Promise("rejected", conn.err)
  /\ reads[2] = Promise("rejected", conn.err)

\* the loop of task t has left only for a reason of its own connection:
\* its own end of stream, or an error of its own reads or writes
OwnExit(t) ==
  t.pc \in {"finally", "done"} =>
    \/ /\ t.caught = NoErr
       /\ t.conn.ended
       /\ t.reads[Len(t.reads)] = Promise("resolved", <<>>)
    \/ /\ t.caught \in TransportErrors
       /\ \/ t.conn.err = t.caught
          \/ \E k \in 1..Len(t.writes) : t.writes[k].state = "rejected"
                                         /\ t.writes[k].value = t.caught

\* C18: of two connections served by one process, a step changes the state
\* of a connection only when it is that connection's own call or socket
\* event; no handler throws, so the process that serves both stays up; and
\* a connection's loop ends only on its own end of stream or its own error.
C18_Isolation ==
  /\ [][\A i \in Conns : pair'.tasks[i] # pair.tasks[i] => pair'.actor = i]_vars
  /\ [](~uncaught)
  /\ [](\A i \in Conns : OwnExit(pair.tasks[i]))

\* connection 1 failed with a transport error before any data, and
\* connection 2 was served to completion: its chunk was echoed and its
\* loop left on its own end of stream
C18_Witness ==
  LET a == pair.tasks[1]
      b == pair.tasks[2]
  IN /\ a.pc = "done" /\ a.caught \in TransportErrors /\ a.wire = <<>>
     /\ b.pc = "done" /\ b.caught = NoErr /\ b.conn.err = NoErr
     /\ pair.actor = 2
     /\ Len(b.wire) = 1 /\ b.wire[1].data = <<ChH, NL>> /\ b.wire[1].cb = "ok"
====
